---- MODULE Spec2Model ----
(***************************************************************************)
(* Model of the generichandler adapter: ToHandlerFunc composes a Decoder,  *)
(* the optional Validatable capability of the request type, an             *)
(* APIEndpoint and an Encoder into one http.HandlerFunc.  The repository   *)
(* holds three revisions of ToHandlerFunc (src/unnamed/part_000,           *)
(* src/generichandler.go, src/unnamed/part_001); the variable impl says    *)
(* which one a handler was built from.                                     *)
(***************************************************************************)
EXTENDS Integers, Sequences, FiniteSets, TLC

VARIABLES
    impl,          \* revision of ToHandlerFunc the handler was built from
    validator,     \* how *RequestType implements Validatable
    decoder,       \* the HTTPDecoder the handler was built with
    endpoint,      \* the APIEndpoint the handler was built with
    encoder,       \* the HTTPEncoder the handler was built with
    pets,          \* petAPI.pets: the in-memory datastore, name -> pet
    clock,         \* time.Now(), advanced by every invocation
    served,        \* handler invocations started so far
    pc,            \* position of the running invocation
    body,          \* r.Body of the running invocation
    requestData,   \* the handler's requestData
    responseData,  \* the handler's responseData
    w,             \* the http.ResponseWriter (a ResponseRecorder)
    calls,         \* Decoder/Validator/Endpoint/Encoder calls of the invocation
    outcome,       \* per step: "none", "ok", "err" or "panic"
    errOf,         \* per step: the error it returned, or Nil
    epArg,         \* the request value the Endpoint was invoked with
    encArg         \* the response value the Encoder was invoked with

vars == <<impl, validator, decoder, endpoint, encoder, pets, clock, served, pc,
          body, requestData, responseData, w, calls, outcome, errOf, epArg,
          encArg>>

(***************************************************************************)
(* Bounds of the model.                                                    *)
(***************************************************************************)
MaxAge == 3
MaxRequests == 2

(***************************************************************************)
(* net/http status codes used by the handler.                              *)
(***************************************************************************)
StatusOK == 200
StatusBadRequest == 400
StatusNotFound == 404

(***************************************************************************)
(* Values.  Nil is the nil pointer; Unsupported is a response value that   *)
(* encoding/json cannot marshal.                                           *)
(***************************************************************************)
Nil == [nil |-> TRUE]
Unsupported == [unsupported |-> TRUE]

Names == {"", "fido"}
Owners == {"", "jeff"}
Ages == 0..MaxAge

pet(name, owner, age, addedAt) ==
    [Name |-> name, Owner |-> owner, Age |-> age, addedAt |-> addedAt]

\* new(RequestType): the zero value of pet
ZeroPet == pet("", "", 0, 0)

(***************************************************************************)
(* Errors: a sentinel ("invalid", "notfound" or "none") and the text that  *)
(* err.Error() returns.                                                    *)
(***************************************************************************)
ErrorInvalidRequest == [sentinel |-> "invalid", text |-> "invalid request"]
ErrorNotFound == [sentinel |-> "notfound", text |-> "no data found"]

\* errors.New(text)
New(text) == [sentinel |-> "none", text |-> text]

\* errors.WithMessage(err, message): Error() is message + ": " + err.Error()
WithMessage(err, message) ==
    [sentinel |-> err.sentinel, text |-> message \o ": " \o err.text]

\* errors.Is(err, target)
Is(err, target) == err.sentinel = target.sentinel

Error(err) == err.text

(***************************************************************************)
(* encoding/json, on texts that are sequences of tokens.  A string         *)
(* literal is the token Quote(s), a number the token ToString(n).          *)
(***************************************************************************)
Quote(s) == "\"" \o s \o "\""

Punctuation == {"{", "}", ":", ",", "\n"}
NumberTokens == {ToString(n) : n \in Ages}
Strings == Names \cup Owners

IsNumber(t) == t \in NumberTokens
IsString(t) == t \notin Punctuation \cup NumberTokens \cup {"null"}
Unquote(t) == CHOOSE s \in Strings : Quote(s) = t
ToNumber(t) == CHOOSE n \in Ages : ToString(n) = t

\* json.Marshal(p) of a pet: the unexported addedAt is not written
Marshal(p) ==
    <<"{", Quote("Name"), ":", Quote(p.Name), ",",
           Quote("Owner"), ":", Quote(p.Owner), ",",
           Quote("Age"), ":", ToString(p.Age), "}">>

\* json.Marshal(ErrorResponse{Error: text})
MarshalErrorResponse(text) == <<"{", Quote("error"), ":", Quote(text), "}">>

\* json.NewEncoder(w).Encode(v): the bytes written and the error returned;
\* a nil pointer is written as null, and every value is followed by "\n"
Encode(v) ==
    IF v = Unsupported
    THEN [bytes |-> <<>>, err |-> New("json: unsupported value")]
    ELSE IF v = Nil
    THEN [bytes |-> <<"null", "\n">>, err |-> Nil]
    ELSE [bytes |-> Marshal(v) \o <<"\n">>, err |-> Nil]

\* one "key": value member stored into the pet p; a value of the wrong type
\* leaves the field alone and is reported, an unknown key is ignored
SetField(p, key, val) ==
    IF key = Quote("Name")
    THEN IF IsString(val) THEN [ok |-> TRUE, val |-> [p EXCEPT !.Name = Unquote(val)]]
         ELSE [ok |-> FALSE, val |-> p]
    ELSE IF key = Quote("Owner")
    THEN IF IsString(val) THEN [ok |-> TRUE, val |-> [p EXCEPT !.Owner = Unquote(val)]]
         ELSE [ok |-> FALSE, val |-> p]
    ELSE IF key = Quote("Age")
    THEN IF IsNumber(val) THEN [ok |-> TRUE, val |-> [p EXCEPT !.Age = ToNumber(val)]]
         ELSE [ok |-> FALSE, val |-> p]
    ELSE [ok |-> TRUE, val |-> p]

SyntaxError == New("invalid character")
UnexpectedEOF == New("unexpected EOF")
EOF == New("EOF")
UnmarshalTypeError == New("json: cannot unmarshal value into Go struct field")

\* the members of an object from token i on: key, ":", value, then "," or "}"
RECURSIVE Members(_, _, _, _)
Members(toks, i, p, typeErr) ==
    IF i + 3 > Len(toks)
    THEN [err |-> UnexpectedEOF, val |-> p]
    ELSE IF ~IsString(toks[i]) \/ toks[i + 1] # ":"
            \/ ~(IsString(toks[i + 2]) \/ IsNumber(toks[i + 2]) \/ toks[i + 2] = "null")
    THEN [err |-> SyntaxError, val |-> p]
    ELSE LET set == IF toks[i + 2] = "null"
                    THEN [ok |-> TRUE, val |-> p]
                    ELSE SetField(p, toks[i], toks[i + 2])
             bad == typeErr \/ ~set.ok
         IN  IF toks[i + 3] = ","
             THEN Members(toks, i + 4, set.val, bad)
             ELSE IF toks[i + 3] = "}"
             THEN [err |-> IF bad THEN UnmarshalTypeError ELSE Nil, val |-> set.val]
             ELSE [err |-> SyntaxError, val |-> set.val]

RECURSIVE SkipSpace(_)
SkipSpace(toks) ==
    IF toks # <<>> /\ Head(toks) = "\n" THEN SkipSpace(Tail(toks)) ELSE toks

\* json.NewDecoder(body).Decode(p) into a pet p that is new(RequestType):
\* the first JSON value of the stream is read; what follows it is left.  The
\* value is scanned before it is stored: a text that is not JSON leaves p
\* as it was, a member of the wrong type does not
Decode(text, p) ==
    LET toks == SkipSpace(text)
        m == Members(toks, 2, p, FALSE)
    IN  IF toks = <<>>
        THEN [err |-> EOF, val |-> p]
        ELSE IF toks[1] = "null"
        THEN [err |-> Nil, val |-> p]
        ELSE IF toks[1] = "{"
        THEN IF Len(toks) >= 2 /\ toks[2] = "}"
             THEN [err |-> Nil, val |-> p]
             ELSE IF m.err \in {SyntaxError, UnexpectedEOF}
             THEN [err |-> m.err, val |-> p]
             ELSE m
        ELSE IF IsString(toks[1]) \/ IsNumber(toks[1])
        THEN [err |-> UnmarshalTypeError, val |-> p]
        ELSE [err |-> SyntaxError, val |-> p]

(***************************************************************************)
(* The http.ResponseWriter, as httptest.ResponseRecorder and net/http      *)
(* implement it: the first WriteHeader or the first Write fixes the        *)
(* status, later WriteHeader calls change nothing.  headerCalls and        *)
(* errorWrites are history: the codes the handler passed to WriteHeader,   *)
(* and for each error payload the state of the status when it was written. *)
(***************************************************************************)
NewRecorder ==
    [Code |-> StatusOK, wroteHeader |-> FALSE, explicit |-> FALSE,
     Body |-> <<>>, headerCalls |-> <<>>, lateHeader |-> FALSE,
     errorWrites |-> <<>>]

WriteHeader(rw, code) ==
    [rw EXCEPT !.headerCalls = Append(@, code),
               !.lateHeader = @ \/ rw.Body # <<>>,
               !.Code = IF rw.wroteHeader THEN @ ELSE code,
               !.explicit = IF rw.wroteHeader THEN @ ELSE TRUE,
               !.wroteHeader = TRUE]

Write(rw, bytes) ==
    [rw EXCEPT !.wroteHeader = TRUE, !.Body = @ \o bytes]

\* json.NewEncoder(w).Encode(v): nothing is written when v does not marshal
EncodeTo(rw, v) ==
    LET e == Encode(v)
    IN  [w |-> IF e.err = Nil THEN Write(rw, e.bytes) ELSE rw, err |-> e.err]

\* json.NewEncoder(w).Encode(ErrorResponse{Error: err.Error()})
EncodeErrorResponse(rw, err) ==
    Write([rw EXCEPT !.errorWrites =
                Append(@, [text |-> Error(err), explicit |-> rw.explicit,
                           code |-> rw.Code, offset |-> Len(rw.Body)])],
          MarshalErrorResponse(Error(err)) \o <<"\n">>)

writeErrorJSON(rw, err) ==
    EncodeErrorResponse(WriteHeader(rw, StatusBadRequest), err)

(***************************************************************************)
(* The default codec.                                                      *)
(***************************************************************************)
\* r.Body: nil (a request built without a body), or a reader of a text; the
\* body of a request the server read off the wire is never nil, and reads
\* as the empty text when the client sent none
NilBody == [present |-> FALSE, text |-> <<>>]
Reader(text) == [present |-> TRUE, text |-> text]

\* the decode error is returned together with the value it was decoding into
DefaultHTTPDecoder_KeepsValue(b) ==
    IF b.present
    THEN LET d == Decode(b.text, ZeroPet) IN [val |-> d.val, err |-> d.err]
    ELSE [val |-> Nil, err |-> Nil]

\* DefaultHTTPDecoder: (nil, nil) without a body, (nil, err) on a body that
\* does not decode, (requestData, nil) otherwise
DefaultHTTPDecoder(b) ==
    IF b.present
    THEN LET d == Decode(b.text, ZeroPet)
         IN  IF d.err # Nil THEN [val |-> Nil, err |-> d.err]
             ELSE [val |-> d.val, err |-> Nil]
    ELSE [val |-> Nil, err |-> Nil]

\* the nil check left out: a nil response is written as null
DefaultHTTPEncoder_EncodesNil(rw, data) == EncodeTo(rw, data)

\* DefaultHTTPEncoder: writes nothing for a nil response
DefaultHTTPEncoder(rw, data) ==
    IF data # Nil THEN EncodeTo(rw, data) ELSE [w |-> rw, err |-> Nil]

(***************************************************************************)
(* The request type's Validate method and the example endpoints.           *)
(***************************************************************************)
\* the age of the pet is not looked at
Validate_NoAgeCheck(p) ==
    IF p.Name = ""
    THEN WithMessage(ErrorInvalidRequest, "the pet must have a name")
    ELSE IF p.Owner = ""
    THEN WithMessage(ErrorInvalidRequest, "the pet must have an owner")
    ELSE Nil

\* pet.Validate (value receiver)
Validate(p) ==
    IF p.Name = ""
    THEN WithMessage(ErrorInvalidRequest, "the pet must have a name")
    ELSE IF p.Owner = ""
    THEN WithMessage(ErrorInvalidRequest, "the pet must have an owner")
    ELSE IF p.Age = 0
    THEN WithMessage(ErrorInvalidRequest, "the pet must be at least 1 year old")
    ELSE Nil

\* api.pets[pet.Name] = addedPet
Store(store, p) ==
    [n \in DOMAIN store \cup {p.Name} |-> IF n = p.Name THEN p ELSE store[n]]

\* petAPI.addPet of generichandler.go: assumes the pet is valid.  addedPet
\* is the pointer it was given, so the request value req is stamped too
addPet(store, now, p) ==
    LET addedPet == [p EXCEPT !.addedAt = now]
    IN  [val |-> addedPet, err |-> Nil, pets |-> Store(store, addedPet),
         req |-> addedPet]

\* petAPI.AddPet of genericservice_test.go: checks the pet itself
AddPet(store, now, p) ==
    IF Validate(p) # Nil
    THEN [val |-> Nil, err |-> Validate(p), pets |-> store, req |-> p]
    ELSE addPet(store, now, p)

(***************************************************************************)
(* The handlers a program can build.  part_000 has its JSON decoding and   *)
(* encoding built in; the other two revisions take them as arguments.      *)
(* A custom Decoder, a custom Encoder, the stub Endpoint and a pointer     *)
(* receiver Validate stand for arguments the caller supplies: what they    *)
(* return is drawn from the sets below.                                    *)
(***************************************************************************)
Impls == {"part_000", "generichandler", "part_001"}
Validators == {"none", "value", "pointer"}
Endpoints == {"addPet", "AddPet", "stub"}
Steps == {"Decoder", "Validator", "Endpoint", "Encoder"}

Fido == pet("fido", "jeff", 3, 0)
Pets == {pet(n, o, a, 0) : n \in Names, o \in Owners, a \in Ages}

\* the body of end-to-end scenario 2: no Name member
MissingName == <<"{", Quote("Owner"), ":", Quote("jeff"), ",",
                      Quote("Age"), ":", ToString(3), "}">>

Bodies ==
    {NilBody, Reader(<<>>), Reader(<<"{">>), Reader(MissingName)}
    \cup {Reader(Marshal(p)) : p \in Pets}

CustomDecoderResults ==
    {[val |-> Fido, err |-> Nil], [val |-> ZeroPet, err |-> Nil],
     [val |-> Nil, err |-> Nil], [val |-> Nil, err |-> New("decode failed")]}

PointerValidateResults == {Nil, WithMessage(ErrorInvalidRequest, "rejected")}

StubResults ==
    {[val |-> v, err |-> Nil] : v \in {Nil, Fido, Unsupported}}
    \cup {[val |-> Nil, err |-> e] :
            e \in {WithMessage(ErrorInvalidRequest, "bad input"),
                   WithMessage(ErrorNotFound, "no such pet"),
                   New("boom")}}

\* a custom Encoder: writes its text, fails before writing, or fails after
\* writing a part of it
CustomEncoderResults ==
    {[bytes |-> <<"custom">>, err |-> Nil],
     [bytes |-> <<>>, err |-> New("encode failed")],
     [bytes |-> <<"cust">>, err |-> New("encode failed")]}

CustomEncoder(rw, r) ==
    [w |-> IF r.bytes = <<>> THEN rw ELSE Write(rw, r.bytes), err |-> r.err]

\* the request and response types fit the endpoint
WellTyped(v, e) ==
    \/ e = "stub"
    \/ e = "addPet" /\ v = "value"
    \/ e = "AddPet" /\ v = "none"

NoCalls == [s \in Steps |-> "none"]
NoErrors == [s \in Steps |-> Nil]

Init ==
    /\ impl \in Impls
    /\ validator \in Validators
    /\ endpoint \in Endpoints
    /\ WellTyped(validator, endpoint)
    /\ decoder \in IF impl = "part_000" THEN {"builtin"} ELSE {"default", "custom"}
    /\ encoder \in IF impl = "part_000" THEN {"builtin"} ELSE {"default", "custom"}
    /\ pets = <<>>
    /\ clock = 0
    /\ served = 0
    /\ pc = "idle"
    /\ body = NilBody
    /\ requestData = Nil
    /\ responseData = Nil
    /\ w = NewRecorder
    /\ calls = <<>>
    /\ outcome = NoCalls
    /\ errOf = NoErrors
    /\ epArg = Nil
    /\ encArg = Nil

config == <<impl, validator, decoder, endpoint, encoder>>

\* the transport invokes the handler with a request and a fresh writer;
\* requestData := new(RequestType)
Serve(b) ==
    /\ pc = "idle"
    /\ served < MaxRequests
    /\ served' = served + 1
    /\ clock' = clock + 1
    /\ body' = b
    /\ requestData' = ZeroPet
    /\ responseData' = Nil
    /\ w' = NewRecorder
    /\ calls' = <<>>
    /\ outcome' = NoCalls
    /\ errOf' = NoErrors
    /\ epArg' = Nil
    /\ encArg' = Nil
    /\ pc' = "decode"
    /\ UNCHANGED <<config, pets>>

\* a step s was called and ended as how, returning the error err
Called(s, how, err) ==
    /\ calls' = Append(calls, s)
    /\ outcome' = [outcome EXCEPT ![s] = how]
    /\ errOf' = [errOf EXCEPT ![s] = err]

NotCalled == UNCHANGED <<calls, outcome, errOf>>

(***************************************************************************)
(* ToHandlerFunc, one action per step of the returned handler.  A handler  *)
(* that dereferences a nil pointer panics: the invocation ends there, with *)
(* the response as it was.                                                 *)
(***************************************************************************)
\* the body is taken to be there whether or not the request has one
HasBody_Always(b) == TRUE

\* r.Body != nil
HasBody(b) == b.present

\* every request type is taken to be Validatable
IsValidatable_Always(v) == TRUE

\* any(requestData).(Validatable): whether *RequestType has the method; the
\* assertion does not look at the pointer, so it holds of a nil one too
IsValidatable(v) == v # "none"

How(err) == IF err = Nil THEN "ok" ELSE "err"

\* part_000: the decode error is written, and the handler goes on
DecodeFailed000(rw, err) ==
    [w |-> EncodeErrorResponse(WriteHeader(rw, StatusBadRequest), err),
     pc |-> "endpoint"]

\* generichandler.go writes the decode error and goes on to the Validatable
\* check; part_001 returns
DecodeFailed(i, rw, err) ==
    [w |-> writeErrorJSON(WriteHeader(rw, StatusBadRequest), err),
     pc |-> IF i = "part_001" THEN "done" ELSE "validate"]

\* the validation error is written and the handler goes on to the Endpoint
ValidationFailed_NoReturn(rw, err) ==
    [w |-> writeErrorJSON(WriteHeader(rw, StatusBadRequest), err), pc |-> "endpoint"]

ValidationFailed(rw, err) ==
    [w |-> writeErrorJSON(WriteHeader(rw, StatusBadRequest), err), pc |-> "done"]

\* part_000 picks the status from the error's sentinel, and none otherwise
EndpointFailed000(rw, err) ==
    [w |-> EncodeErrorResponse(
              IF Is(err, ErrorInvalidRequest) THEN WriteHeader(rw, StatusBadRequest)
              ELSE IF Is(err, ErrorNotFound) THEN WriteHeader(rw, StatusNotFound)
              ELSE rw, err),
     pc |-> "done"]

EndpointFailed(rw, err) == [w |-> writeErrorJSON(rw, err), pc |-> "done"]

\* the Encoder's error is dropped
EncodeFailed_Silent(rw, err) == [w |-> rw, pc |-> "done"]

EncodeFailed(rw, err) == [w |-> writeErrorJSON(rw, err), pc |-> "done"]

DecoderResults(d, b) ==
    IF d = "default" THEN {DefaultHTTPDecoder(b)} ELSE CustomDecoderResults

ValidateResults(v, p) ==
    IF v = "value" THEN {Validate(p)} ELSE PointerValidateResults

EndpointResults(e, store, now, p) ==
    IF e = "addPet" THEN {addPet(store, now, p)}
    ELSE IF e = "AddPet" THEN {AddPet(store, now, p)}
    ELSE {[val |-> r.val, err |-> r.err, pets |-> store, req |-> p] :
            r \in StubResults}

EncoderResults(e, rw, data) ==
    IF e = "default" THEN {DefaultHTTPEncoder(rw, data)}
    ELSE {CustomEncoder(rw, r) : r \in CustomEncoderResults}

Decode000 ==
    /\ pc = "decode"
    /\ impl = "part_000"
    /\ IF ~HasBody(body)
       THEN \* json.NewDecoder(nil).Decode reads from a nil io.Reader
            /\ Called("Decoder", "panic", Nil)
            /\ pc' = "panic"
            /\ UNCHANGED <<requestData, w>>
       ELSE LET d == Decode(body.text, ZeroPet)
            IN  /\ Called("Decoder", How(d.err), d.err)
                /\ requestData' = d.val
                /\ IF d.err # Nil
                   THEN /\ w' = DecodeFailed000(w, d.err).w
                        /\ pc' = DecodeFailed000(w, d.err).pc
                   ELSE /\ w' = w
                        /\ pc' = "endpoint"
    /\ UNCHANGED <<config, pets, clock, served, body, responseData, epArg, encArg>>

DecodeRequest ==
    /\ pc = "decode"
    /\ impl # "part_000"
    /\ IF HasBody(body)
       THEN \E r \in DecoderResults(decoder, body) :
                /\ Called("Decoder", How(r.err), r.err)
                /\ requestData' = r.val
                /\ IF r.err # Nil
                   THEN /\ w' = DecodeFailed(impl, w, r.err).w
                        /\ pc' = DecodeFailed(impl, w, r.err).pc
                   ELSE /\ w' = w
                        /\ pc' = "validate"
       ELSE /\ NotCalled
            /\ requestData' = Nil
            /\ w' = w
            /\ pc' = "endpoint"
    /\ UNCHANGED <<config, pets, clock, served, body, responseData, epArg, encArg>>

ValidateRequest ==
    /\ pc = "validate"
    /\ IF ~IsValidatable(validator)
       THEN /\ NotCalled
            /\ w' = w
            /\ pc' = "endpoint"
       ELSE IF validator = "value" /\ requestData = Nil
       THEN \* a value method called through a nil pointer
            /\ Called("Validator", "panic", Nil)
            /\ w' = w
            /\ pc' = "panic"
       ELSE \E err \in ValidateResults(validator, requestData) :
                /\ Called("Validator", How(err), err)
                /\ IF err # Nil
                   THEN /\ w' = ValidationFailed(w, err).w
                        /\ pc' = ValidationFailed(w, err).pc
                   ELSE /\ w' = w
                        /\ pc' = "endpoint"
    /\ UNCHANGED <<config, pets, clock, served, body, requestData, responseData,
                   epArg, encArg>>

CallEndpoint ==
    /\ pc = "endpoint"
    /\ epArg' = requestData
    /\ IF endpoint # "stub" /\ requestData = Nil
       THEN \* addPet and AddPet read the fields of a nil pet
            /\ Called("Endpoint", "panic", Nil)
            /\ UNCHANGED <<requestData, responseData, pets, w>>
            /\ pc' = "panic"
       ELSE \E r \in EndpointResults(endpoint, pets, clock, requestData) :
                /\ Called("Endpoint", How(r.err), r.err)
                /\ responseData' = r.val
                /\ requestData' = r.req
                /\ pets' = r.pets
                /\ IF r.err # Nil
                   THEN LET f == IF impl = "part_000" THEN EndpointFailed000(w, r.err)
                                 ELSE EndpointFailed(w, r.err)
                        IN  w' = f.w /\ pc' = f.pc
                   ELSE w' = w /\ pc' = "encode"
    /\ UNCHANGED <<config, clock, served, body, encArg>>

\* part_000: json.NewEncoder(w).Encode(responseData), its error dropped
Encode000 ==
    /\ pc = "encode"
    /\ impl = "part_000"
    /\ encArg' = responseData
    /\ LET e == EncodeTo(w, responseData)
       IN  /\ Called("Encoder", How(e.err), e.err)
           /\ w' = e.w
    /\ pc' = "done"
    /\ UNCHANGED <<config, pets, clock, served, body, requestData, responseData, epArg>>

EncodeResponse ==
    /\ pc = "encode"
    /\ impl # "part_000"
    /\ encArg' = responseData
    /\ \E e \in EncoderResults(encoder, w, responseData) :
            /\ Called("Encoder", How(e.err), e.err)
            /\ IF e.err # Nil
               THEN /\ w' = EncodeFailed(e.w, e.err).w
                    /\ pc' = EncodeFailed(e.w, e.err).pc
               ELSE /\ w' = e.w
                    /\ pc' = "done"
    /\ UNCHANGED <<config, pets, clock, served, body, requestData, responseData, epArg>>

\* the handler returned (or panicked); the transport may invoke it again
Return ==
    /\ pc \in {"done", "panic"}
    /\ pc' = "idle"
    /\ UNCHANGED <<config, pets, clock, served, body, requestData, responseData, w,
                   calls, outcome, errOf, epArg, encArg>>

Next ==
    \/ \E b \in Bodies : Serve(b)
    \/ Decode000
    \/ DecodeRequest
    \/ ValidateRequest
    \/ CallEndpoint
    \/ Encode000
    \/ EncodeResponse
    \/ Return

Spec == Init /\ [][Next]_vars

(***************************************************************************)
(* Properties of the handler.                                              *)
(***************************************************************************)
\* the failure body {"error": "<message>"} as the JSON encoder writes it
ErrorBody(err) == MarshalErrorResponse(Error(err)) \o <<"\n">>

\* the handlers built from a Decoder, an Endpoint and an Encoder
ThreeArgument == impl \in {"generichandler", "part_001"}

Returned == pc = "done"

\* C1: when the Decoder fails on a request with a body, the handler answers
\* 400 with the body {"error": "<decode error message>"} and the Endpoint is
\* not invoked in that invocation.
C1_DecodeFailureIsRejected ==
    (ThreeArgument /\ outcome["Decoder"] = "err") =>
        /\ outcome["Endpoint"] = "none"
        /\ Returned => w.Code = StatusBadRequest /\ w.Body = ErrorBody(errOf["Decoder"])

\* C2: when the decoded request value is Validatable and its Validate returns
\* an error, the handler answers 400 with the body
\* {"error": "<validation error message>"} and the Endpoint is not invoked.
C2_ValidationFailureIsRejected ==
    /\ (outcome["Decoder"] = "ok" /\ outcome["Validator"] = "err") =>
            /\ outcome["Endpoint"] = "none"
            /\ pc \in {"done", "idle"}
            /\ w.Code = StatusBadRequest
            /\ w.Body = ErrorBody(errOf["Validator"])
    \* a decoded pet that pet.Validate rejects does not get past validation
    /\ (ThreeArgument /\ validator = "value" /\ outcome["Decoder"] = "ok"
            /\ requestData # Nil /\ Validate(requestData) # Nil
            /\ pc # "validate") =>
            /\ outcome["Validator"] = "err"
            /\ errOf["Validator"] = Validate(requestData)

\* a pet without a name was decoded and rejected by pet.Validate
C2_Witness ==
    /\ Returned
    /\ validator = "value"
    /\ outcome["Decoder"] = "ok"
    /\ outcome["Validator"] = "err"
    /\ requestData.Name = ""

\* http.StatusInternalServerError
StatusInternalServerError == 500

\* C3: when the Endpoint returns an error, the status follows the error's
\* classification: ErrorInvalidRequest gives 400, ErrorNotFound gives 404
\* with the body {"error": "<message>"}, any other error gives 500.
C3_EndpointErrorStatusByClass ==
    (Returned /\ outcome["Decoder"] # "err" /\ outcome["Endpoint"] = "err") =>
        LET err == errOf["Endpoint"]
        IN  /\ Is(err, ErrorInvalidRequest) => w.Code = StatusBadRequest
            /\ Is(err, ErrorNotFound) =>
                   w.Code = StatusNotFound /\ w.Body = ErrorBody(err)
            /\ (~Is(err, ErrorInvalidRequest) /\ ~Is(err, ErrorNotFound)) =>
                   w.Code = StatusInternalServerError

\* C4: on every failure path a status was set by WriteHeader before the
\* first byte of the error body: no error body is written while the status
\* is still the implicit default.
C4_ExplicitStatusBeforeErrorBody ==
    \A i \in DOMAIN w.errorWrites : w.errorWrites[i].explicit

\* C5: an error payload is written at most once in an invocation, and the
\* handler returns right after it: the failed step is the last step that
\* ran, and nothing is appended to the body after the payload.
C5_ErrorBodyOnceThenReturn ==
    w.errorWrites # <<>> =>
        /\ Len(w.errorWrites) = 1
        /\ Len(w.Body) = w.errorWrites[1].offset
                            + Len(ErrorBody(New(w.errorWrites[1].text)))
        /\ pc \in {"done", "idle"}
        /\ outcome[calls[Len(calls)]] = "err"

Count(seq, x) == Cardinality({i \in DOMAIN seq : seq[i] = x})

C7_NoValidatorNeverRejects ==
    (validator = "none" /\ outcome["Decoder"] = "ok") =>
        /\ outcome["Validator"] = "none"
        /\ pc \in {"validate", "endpoint"} => w = NewRecorder
        /\ pc \notin {"validate", "endpoint"} =>
               /\ outcome["Endpoint"] # "none"
               /\ decoder # "custom" => epArg = Decode(body.text, ZeroPet).val
               /\ decoder = "custom" =>
                      epArg \in {r.val : r \in {x \in CustomDecoderResults : x.err = Nil}}

\* a pet that pet.Validate would reject reached the Endpoint of a handler
\* whose request type has no Validate method
C7_Witness ==
    /\ Returned
    /\ validator = "none"
    /\ decoder = "default"
    /\ outcome["Decoder"] = "ok"
    /\ outcome["Endpoint"] # "none"
    /\ epArg # Nil
    /\ epArg.Name = ""

\* the text holds the member "key": "val"
ContainsPair(text, key, val) ==
    \E i \in 1..(Len(text) - 2) :
        text[i] = Quote(key) /\ text[i + 1] = ":" /\ text[i + 2] = Quote(val)

\* C8: when decoding and validation succeed and the Endpoint returns a
\* response without error, the Encoder is invoked with that response; with
\* the default Encoder the status is 200 and the body is the JSON text of the
\* response (empty for a nil response); the pet example
\* {"Name":"fido","Owner":"jeff","Age":3} gives 200 and a body holding
\* "Name":"fido".
C8_SuccessIsEncoded ==
    (ThreeArgument /\ Returned
        /\ outcome["Decoder"] \in {"none", "ok"}
        /\ outcome["Validator"] \in {"none", "ok"}
        /\ outcome["Endpoint"] = "ok") =>
        /\ Count(calls, "Encoder") = 1
        /\ encArg = responseData
        /\ outcome["Encoder"] = "ok" => w.Code = StatusOK
        /\ (encoder = "default" /\ responseData # Unsupported) =>
               /\ w.Code = StatusOK
               /\ w.Body = IF responseData = Nil THEN <<>>
                           ELSE Marshal(responseData) \o <<"\n">>
        /\ (encoder = "default" /\ decoder = "default" /\ endpoint # "stub"
                /\ body = Reader(Marshal(Fido))) =>
               /\ w.Code = StatusOK
               /\ ContainsPair(w.Body, "Name", "fido")

\* the pet example was served by the default codec and addPet
C8_Witness ==
    /\ ThreeArgument
    /\ Returned
    /\ encoder = "default"
    /\ decoder = "default"
    /\ endpoint = "addPet"
    /\ body = Reader(Marshal(Fido))
    /\ outcome["Validator"] = "ok"
    /\ outcome["Encoder"] = "ok"
    /\ responseData.addedAt > 0
    /\ w.Code = StatusOK

\* C9: when the Endpoint succeeds and the Encoder returns an error, the
\* handler writes {"error": "<encode error message>"} through writeErrorJSON
\* (WriteHeader(400), then the payload) as the last thing in the body, and
\* returns: the Encoder is not invoked again.
C9_EncodeFailureWritesError ==
    (ThreeArgument /\ outcome["Encoder"] = "err") =>
        LET n == Len(w.errorWrites)
        IN  /\ pc \in {"done", "idle"}
            /\ outcome["Endpoint"] = "ok"
            /\ n >= 1
            /\ w.errorWrites[n].text = Error(errOf["Encoder"])
            /\ w.Body = SubSeq(w.Body, 1, w.errorWrites[n].offset)
                            \o ErrorBody(errOf["Encoder"])
            /\ w.headerCalls # <<>>
            /\ w.headerCalls[Len(w.headerCalls)] = StatusBadRequest
            /\ Count(calls, "Encoder") = 1
            /\ calls[Len(calls)] = "Encoder"

\* a custom Encoder failed after writing a part of the body
C9_Witness ==
    /\ ThreeArgument
    /\ Returned
    /\ outcome["Encoder"] = "err"
    /\ encoder = "custom"
    /\ w.errorWrites[Len(w.errorWrites)].offset > 0

Rank(s) ==
    IF s = "Decoder" THEN 1 ELSE IF s = "Validator" THEN 2
    ELSE IF s = "Endpoint" THEN 3 ELSE 4

\* C10: the steps of one invocation run in the order Decoder, Validator,
\* Endpoint, Encoder, each at most once; a later step runs only if every
\* earlier step that ran succeeded; a failure at any step ends the
\* invocation with an error response.
C10_StepsInOrderStopAtFailure ==
    ThreeArgument =>
        /\ \A i, j \in DOMAIN calls : i < j => Rank(calls[i]) < Rank(calls[j])
        /\ \A i \in 1..(Len(calls) - 1) : outcome[calls[i]] = "ok"
        /\ (\E s \in Steps : outcome[s] = "err") =>
               pc \in {"done", "idle"} /\ w.errorWrites # <<>>

(***************************************************************************)
(* The default codec called on its own, as a program or a test calls the   *)
(* exported DefaultHTTPDecoder and DefaultHTTPEncoder: the Decoder on a    *)
(* request, the Encoder on a response value, and the written body decoded  *)
(* again as TestToHandlerFunc does with the recorded response.             *)
(***************************************************************************)
\* the response values an endpoint can hand to the Encoder: pets as addPet
\* stamps them, a nil response, and a value that does not marshal
ResponseValues ==
    {pet(n, o, a, t) : n \in Names, o \in Owners, a \in Ages, t \in 0..MaxRequests}
    \cup {Nil, Unsupported}

\* the requests the Decoder is called on: those of the handler and a body
\* whose Age is a string
IllTyped == <<"{", Quote("Age"), ":", Quote("fido"), "}">>

CodecBodies == Bodies \cup {Reader(IllTyped)}

CodecInit ==
    /\ Init
    /\ impl = "part_001"
    /\ validator = "value"
    /\ endpoint = "addPet"
    /\ decoder = "default"
    /\ encoder = "default"

CallDecoder(b) ==
    /\ pc = "idle"
    /\ body' = b
    /\ LET r == DefaultHTTPDecoder(b)
       IN  /\ requestData' = r.val
           /\ Called("Decoder", How(r.err), r.err)
    /\ pc' = "decoded"
    /\ UNCHANGED <<config, pets, clock, served, responseData, w, epArg, encArg>>

CallEncoder(v) ==
    /\ pc = "idle"
    /\ responseData' = v
    /\ encArg' = v
    /\ LET e == DefaultHTTPEncoder(NewRecorder, v)
       IN  /\ w' = e.w
           /\ Called("Encoder", How(e.err), e.err)
    /\ pc' = "encoded"
    /\ UNCHANGED <<config, pets, clock, served, body, requestData, epArg>>

\* json.NewDecoder(httpResponse.Body).Decode(endpointResult)
DecodeResponse ==
    /\ pc = "encoded"
    /\ body' = Reader(w.Body)
    /\ LET r == DefaultHTTPDecoder(Reader(w.Body))
       IN  /\ requestData' = r.val
           /\ Called("Decoder", How(r.err), r.err)
    /\ pc' = "decoded"
    /\ UNCHANGED <<config, pets, clock, served, responseData, w, epArg, encArg>>

CodecDone ==
    /\ pc = "decoded"
    /\ pc' = "idle"
    /\ body' = NilBody
    /\ requestData' = Nil
    /\ responseData' = Nil
    /\ w' = NewRecorder
    /\ calls' = <<>>
    /\ outcome' = NoCalls
    /\ errOf' = NoErrors
    /\ encArg' = Nil
    /\ UNCHANGED <<config, pets, clock, served, epArg>>

CodecNext ==
    \/ \E b \in CodecBodies : CallDecoder(b)
    \/ \E v \in ResponseValues : CallEncoder(v)
    \/ DecodeResponse
    \/ CodecDone

CodecSpec == CodecInit /\ [][CodecNext]_vars

\* C11: round trip of the default JSON codec: a response value written by
\* DefaultHTTPEncoder and decoded again from the written body is equal to
\* the original.
C11_RoundTrip ==
    (pc = "decoded" /\ outcome["Encoder"] = "ok" /\ responseData # Nil) =>
        /\ errOf["Decoder"] = Nil
        /\ requestData = responseData

\* the texts of the model that are one JSON object
WellFormed ==
    {Marshal(p) : p \in Pets} \cup {MissingName}
    \cup {Marshal(p) \o <<"\n">> : p \in Pets}

\* C13: DefaultHTTPDecoder returns (nil, nil) for a request without a body,
\* (nil, err) for a body that is not well-formed JSON for the target type
\* (an empty body included), (value, nil) for a body that parses, and never
\* a value together with an error.
C13_DecoderOutcomes ==
    pc = "decoded" =>
        /\ ~(requestData # Nil /\ errOf["Decoder"] # Nil)
        /\ ~body.present => requestData = Nil /\ errOf["Decoder"] = Nil
        /\ (body.present /\ body.text \notin WellFormed) =>
               requestData = Nil /\ errOf["Decoder"] # Nil
        /\ (body.present /\ body.text \in WellFormed) =>
               requestData # Nil /\ errOf["Decoder"] = Nil

\* the Decoder was called on a request whose body is present and empty
C13_Witness ==
    /\ pc = "decoded"
    /\ body = Reader(<<>>)
    /\ outcome["Decoder"] = "err"
    /\ Error(errOf["Decoder"]) = "EOF"

\* the pet endpoint of the tests: DefaultJSONHandlerFunc(api.addPet)
PetEndpoint ==
    /\ ThreeArgument
    /\ decoder = "default"
    /\ encoder = "default"
    /\ endpoint = "addPet"

\* the request in hand is a pet without a Name, without an Owner or of Age 0,
\* and the handler is past its validation step
InvalidPetPosted ==
    /\ served > 0
    /\ pc \notin {"decode", "validate"}
    /\ body.present
    /\ LET d == Decode(body.text, ZeroPet)
       IN  /\ d.err = Nil
           /\ (d.val.Name = "" \/ d.val.Owner = "" \/ d.val.Age = 0)

\* the response body is the one JSON object {"error": text}
BodyIsError(text) ==
    w.Body \in {MarshalErrorResponse(text), MarshalErrorResponse(text) \o <<"\n">>}

\* C12 as stated: an invalid pet posted to the pet endpoint is answered 400
\* and never reaches addPet, and for the body {"Owner":"jeff","Age":3} the
\* response body is {"error":"the pet must have a name"}.
C12_InvalidPetRejected_Original ==
    (PetEndpoint /\ InvalidPetPosted) =>
        /\ pc \in {"done", "idle"}
        /\ w.Code = StatusBadRequest
        /\ outcome["Endpoint"] = "none"
        /\ body.text = MissingName => BodyIsError("the pet must have a name")

\* C12: an invalid pet posted to the pet endpoint is answered 400 and never
\* reaches addPet, and for the body {"Owner":"jeff","Age":3} the response
\* body is {"error":"the pet must have a name: invalid request"}.
C12_InvalidPetRejected ==
    (PetEndpoint /\ InvalidPetPosted) =>
        /\ pc \in {"done", "idle"}
        /\ w.Code = StatusBadRequest
        /\ outcome["Endpoint"] = "none"
        /\ body.text = MissingName =>
               BodyIsError("the pet must have a name: invalid request")

\* the pet endpoint has answered the post of {"Owner":"jeff","Age":3}
C12_Witness ==
    /\ PetEndpoint
    /\ InvalidPetPosted
    /\ Returned
    /\ body = Reader(MissingName)
    /\ w.Code = StatusBadRequest

\* C14: Validate is never invoked on an absent (nil) request value: it runs
\* only when the request has a body, the Decoder returned without error and
\* the decoded value is not nil.
C14_ValidateNeverOnNil ==
    (ThreeArgument /\ outcome["Validator"] # "none") =>
        /\ body.present
        /\ outcome["Decoder"] = "ok"
        /\ requestData # Nil

\* C15: in a completed handler invocation, a response whose body carries an
\* error payload {"error": ...} never has the success status 200.
C15_ErrorPayloadNeverOK ==
    (Returned /\ w.errorWrites # <<>>) => w.Code # StatusOK

\* C16: in every handler invocation WriteHeader is called at most once and
\* never after a byte of the body has been written, and the status of the
\* response is the one the handler set.
C16_StatusSetOnce ==
    served > 0 =>
        /\ Len(w.headerCalls) <= 1
        /\ ~w.lateHeader
        /\ w.headerCalls # <<>> => w.Code = w.headerCalls[Len(w.headerCalls)]

====
